---- MODULE Spec2Model ----
(***************************************************************************)
(* Model of the evaluation engine (src/src/evaluator.ts), the generation   *)
(* adapters (src/src/adapters/copilotCLI.ts, claudeCodeCLI.ts), the        *)
(* pattern validator (src/src/validators/patternValidator.ts), the LLM     *)
(* judge and ESLint validators and the baseline manager.                   *)
(*                                                                         *)
(* Representation choices                                                  *)
(*  - A score is a fixed-point integer: One stands for 1.0.  Every score   *)
(*    is a multiple of 6, so that the mean of one, two or three scores is  *)
(*    again an integer and `sum / n` is computed without rounding.         *)
(*  - An optional value (a field that may be undefined) is a sequence of   *)
(*    length 0 (undefined) or 1 (the value).                               *)
(*  - A timeout is a record [kind, value], kind in undefined/null/number.  *)
(*  - A regular expression is a record [source, global, matches, spans]:   *)
(*    matches is the set of lines (or file names) it matches, spans gives  *)
(*    the start and end index of the match in each, global is its g flag.  *)
(*    An import string is a record [source, matches].                      *)
(*  - A file's content is the sequence of its lines.                       *)
(*  - The baseline store is a function from the paths of the files that    *)
(*    exist to their contents; a path is the sequence of its segments.     *)
(*  - NaN is a number of its own outside every range.                      *)
(*  - A baseline file's content is the record that was serialised plus a   *)
(*    flag telling whether the text is complete; JSON.parse throws on a    *)
(*    text that is not.  The outcome of a file read or write is an input   *)
(*    of the step that performs it.                                        *)
(*  - An operator for a method that can throw yields a record with a       *)
(*    field threw next to its return value (or the store it leaves).       *)
(*  - events is the sequence of the events the evaluator has emitted.      *)
(***************************************************************************)
EXTENDS Integers, Sequences, FiniteSets, TLC

\* ------------------------------------------------------------------ bounds
MaxFiles == 2
MaxLines == 2
MaxPatterns == 3
MaxScenarios == 2
MaxViolations == 3

\* --------------------------------------------------------------- optionals
None == <<>>
Some(v) == <<v>>
IsSome(o) == Len(o) = 1
Val(o) == o[1]

\* ------------------------------------------------------------------ scores
\* 1.0 in fixed point
One == 6000
\* the skip sentinel, score: -1
Skip == -1

\* round(exp(-k/20) * 1000) * 6 for k = 0, 1, 2, ...; 0 beyond the table
ExpTable ==
  << 6000, 5706, 5430, 5166, 4914, 4674, 4446, 4230, 4020, 3828, 3642, 3462,
     3294, 3132, 2982, 2832, 2694, 2562, 2442, 2322, 2208, 2100, 1998, 1902,
     1806, 1722, 1638, 1554, 1482, 1410, 1338, 1272, 1212, 1152, 1098, 1044,
     990, 942, 900, 852, 810, 774, 732, 696, 666, 630, 600, 570, 546, 516,
     492, 468, 444, 426, 402, 384, 366, 348, 330, 312, 300, 282, 270, 258,
     246, 234, 222, 210, 198, 192, 180, 174, 162, 156, 150, 144, 132, 126,
     120, 114, 108, 102, 102, 96, 90, 84, 84, 78, 72, 72, 66, 66, 60, 60, 54,
     54, 48, 48, 42, 42, 42, 36, 36, 36, 36, 30, 30, 30, 30, 24, 24, 24, 24,
     24, 18, 18, 18, 18, 18, 18, 12, 12, 12, 12, 12, 12, 12, 12, 12, 12, 12,
     6, 6, 6, 6, 6, 6, 6, 6, 6, 6, 6, 6, 6, 6, 6, 6, 6, 6, 6, 6, 6, 6 >>

\* Math.exp(-k/20) in fixed point
MathExpNeg(k) == IF k + 1 <= Len(ExpTable) THEN ExpTable[k + 1] ELSE 0

\* NaN, the number a non-numeric value converts to; every comparison with it
\* is false and Math.max / Math.min hand it on
NaN == -2

MathMax(a, b) == IF a = NaN \/ b = NaN THEN NaN ELSE IF a >= b THEN a ELSE b
MathMin(a, b) == IF a = NaN \/ b = NaN THEN NaN ELSE IF a <= b THEN a ELSE b

RECURSIVE ConcatAll(_)
ConcatAll(ss) == IF Len(ss) = 0 THEN <<>> ELSE Head(ss) \o ConcatAll(Tail(ss))

RECURSIVE SumSeq(_)
SumSeq(s) == IF Len(s) = 0 THEN 0 ELSE Head(s) + SumSeq(Tail(s))

\* -------------------------------------------------------------- data model
Severities == {"critical", "major", "minor"}

Violation(type, message, sources, file, line, severity) ==
  [type |-> type, message |-> message, sources |-> sources,
   file |-> file, line |-> line, severity |-> severity]

ValidationResult(passed, score, violations, validatorType, error) ==
  [passed |-> passed, score |-> score, violations |-> violations,
   validatorType |-> validatorType, error |-> error]

\* severity weights of calculateScore, in tenths
weights(severity) ==
  CASE severity = "critical" -> 10
    [] severity = "major" -> 7
    [] severity = "minor" -> 3

\* ------------------------------------------------------- pattern validator
\* text.split('\n') backwards: the index in the text at which line k starts
LineOffset(text, k) ==
  SumSeq([j \in 1..(k - 1) |-> Len(text[j]) + 1])

\* the lines of the text in which the pattern occurs at or after index from
OccursFrom(pattern, text, from) ==
  {k \in 1..Len(text) :
     /\ text[k] \in pattern.matches
     /\ LineOffset(text, k) + pattern.spans[text[k]][1] >= from}

\* RegExp.prototype.test on a text (a sequence of lines; one line or one file
\* name is a text of one line).  A regular expression with the g flag starts
\* at its lastIndex, leaves the end of the match there, and resets it to 0
\* when it finds nothing; without the flag lastIndex is neither read nor
\* written.
Test(pattern, text, lastIndex) ==
  LET from == IF pattern.global THEN lastIndex ELSE 0
      found == OccursFrom(pattern, text, from)
  IN  IF found = {}
        THEN [result |-> FALSE,
              lastIndex |-> IF pattern.global THEN 0 ELSE lastIndex]
        ELSE LET k == CHOOSE m \in found : \A n \in found : m <= n
             IN  [result |-> TRUE,
                  lastIndex |->
                    IF pattern.global
                      THEN LineOffset(text, k) + pattern.spans[text[k]][2]
                      ELSE lastIndex]

\* String.includes on the content of a file
Includes(content, importPattern) ==
  \E k \in 1..Len(content) : content[k] \in importPattern.matches

\* the regular expressions of the rule lists
RegExps(patterns) ==
  LET list(l) == IF IsSome(l) THEN {Val(l)[j] : j \in 1..Len(Val(l))} ELSE {}
  IN  list(patterns.forbiddenPatterns) \cup list(patterns.requiredPatterns)
        \cup list(patterns.forbiddenFileNamePatterns)
        \cup list(patterns.requiredFileNamePatterns)

\* the lastIndex of every regular expression, by source, as constructed
FreshLastIndex(patterns) == [s \in {p.source : p \in RegExps(patterns)} |-> 0]

RECURSIVE findPatternMatchesFrom(_, _, _, _, _)
findPatternMatchesFrom(lines, pattern, i, matches, lastIndex) ==
  IF i > Len(lines) THEN [matches |-> matches, lastIndex |-> lastIndex]
  ELSE LET t == Test(pattern, <<lines[i]>>, lastIndex)
       IN  findPatternMatchesFrom(
             lines, pattern, i + 1,
             IF t.result THEN Append(matches, [line |-> i, text |-> lines[i]])
             ELSE matches,
             t.lastIndex)

findPatternMatches(text, pattern, lastIndex) ==
  findPatternMatchesFrom(text, pattern, 1, <<>>, lastIndex)

\* first line containing the text, 0 when there is none (null)
findLineWithText(text, searchText) ==
  IF Includes(text, searchText)
    THEN CHOOSE i \in 1..Len(text) :
           /\ text[i] \in searchText.matches
           /\ \A j \in 1..(i - 1) : text[j] \notin searchText.matches
    ELSE 0

\* mutant: every violation weighs 1.0 whatever its severity
calculateScoreByCount(violations) ==
  IF Len(violations) = 0 THEN One
  ELSE MathMax(0, MathMin(One, MathExpNeg(2 * 10 * Len(violations))))

calculateScore(violations) ==
  IF Len(violations) = 0 THEN One
  ELSE LET totalWeight ==
             SumSeq([k \in 1..Len(violations) |-> weights(violations[k].severity)])
           score == MathExpNeg(2 * totalWeight)
       IN  MathMax(0, MathMin(One, score))

\* for (const pattern of patterns.forbiddenPatterns), from pattern j on
RECURSIVE ForbiddenPatternLoop(_, _, _, _, _, _)
ForbiddenPatternLoop(ps, j, file, severity, violations, li) ==
  IF j > Len(ps) THEN [violations |-> violations, li |-> li]
  ELSE LET found == findPatternMatches(file.content, ps[j], li[ps[j].source])
           matches == found.matches
       IN  ForbiddenPatternLoop(
             ps, j + 1, file, severity,
             violations \o
               [m \in 1..Len(matches) |->
                  Violation("pattern", "Forbidden pattern found",
                            <<ps[j].source>>, file.path, matches[m].line,
                            severity)],
             [li EXCEPT ![ps[j].source] = found.lastIndex])

ForbiddenPatternViolations(patterns, file, severity, li) ==
  IF IsSome(patterns.forbiddenPatterns)
    THEN ForbiddenPatternLoop(Val(patterns.forbiddenPatterns), 1, file,
                              severity, <<>>, li)
    ELSE [violations |-> <<>>, li |-> li]

\* for (const pattern of patterns.requiredPatterns), from pattern j on
RECURSIVE RequiredPatternLoop(_, _, _, _, _, _)
RequiredPatternLoop(ps, j, file, severity, violations, li) ==
  IF j > Len(ps) THEN [violations |-> violations, li |-> li]
  ELSE LET t == Test(ps[j], file.content, li[ps[j].source])
       IN  RequiredPatternLoop(
             ps, j + 1, file, severity,
             violations \o
               (IF ~t.result
                  THEN <<Violation("pattern", "Required pattern not found",
                                   <<ps[j].source>>, file.path, 0, severity)>>
                  ELSE <<>>),
             [li EXCEPT ![ps[j].source] = t.lastIndex])

RequiredPatternViolations(patterns, file, severity, li) ==
  IF IsSome(patterns.requiredPatterns)
    THEN RequiredPatternLoop(Val(patterns.requiredPatterns), 1, file,
                             severity, <<>>, li)
    ELSE [violations |-> <<>>, li |-> li]

ForbiddenImportViolations(patterns, file, severity) ==
  IF IsSome(patterns.forbiddenImports)
    THEN LET ps == Val(patterns.forbiddenImports)
         IN  ConcatAll([j \in 1..Len(ps) |->
               IF Includes(file.content, ps[j])
                 THEN <<Violation("pattern", "Forbidden import found",
                                  <<ps[j].source>>, file.path,
                                  findLineWithText(file.content, ps[j]),
                                  severity)>>
                 ELSE <<>>])
    ELSE <<>>

RequiredImportViolations(patterns, file, severity) ==
  IF IsSome(patterns.requiredImports)
    THEN LET ps == Val(patterns.requiredImports)
         IN  ConcatAll([j \in 1..Len(ps) |->
               IF ~Includes(file.content, ps[j])
                 THEN <<Violation("pattern", "Required import not found",
                                  <<ps[j].source>>, file.path, 0, severity)>>
                 ELSE <<>>])
    ELSE <<>>

\* for (const pattern of patterns.forbiddenFileNamePatterns), from pattern j on
RECURSIVE ForbiddenFileNameLoop(_, _, _, _, _, _)
ForbiddenFileNameLoop(ps, j, file, severity, violations, li) ==
  IF j > Len(ps) THEN [violations |-> violations, li |-> li]
  ELSE LET t == Test(ps[j], <<file.path>>, li[ps[j].source])
       IN  ForbiddenFileNameLoop(
             ps, j + 1, file, severity,
             violations \o
               (IF t.result
                  THEN <<Violation("pattern", "Forbidden file name pattern",
                                   <<ps[j].source>>, file.path, 0, severity)>>
                  ELSE <<>>),
             [li EXCEPT ![ps[j].source] = t.lastIndex])

ForbiddenFileNameViolations(patterns, file, severity, li) ==
  IF IsSome(patterns.forbiddenFileNamePatterns)
    THEN ForbiddenFileNameLoop(Val(patterns.forbiddenFileNamePatterns), 1,
                               file, severity, <<>>, li)
    ELSE [violations |-> <<>>, li |-> li]

\* absolutePaths.some(p => patterns.some(pattern => pattern.test(basename(p)))),
\* from path k and pattern j on; some stops at the first test that holds
RECURSIVE hasRequiredFile(_, _, _, _, _)
hasRequiredFile(absolutePaths, ps, k, j, li) ==
  IF k > Len(absolutePaths) THEN [result |-> FALSE, li |-> li]
  ELSE IF j > Len(ps) THEN hasRequiredFile(absolutePaths, ps, k + 1, 1, li)
  ELSE LET t == Test(ps[j], <<absolutePaths[k].path>>, li[ps[j].source])
           next == [li EXCEPT ![ps[j].source] = t.lastIndex]
       IN  IF t.result THEN [result |-> TRUE, li |-> next]
           ELSE hasRequiredFile(absolutePaths, ps, k, j + 1, next)

RequiredFileNameViolations(patterns, absolutePaths, severity, li) ==
  IF IsSome(patterns.requiredFileNamePatterns)
    THEN LET ps == Val(patterns.requiredFileNamePatterns)
             has == hasRequiredFile(absolutePaths, ps, 1, 1, li)
         IN  [violations |->
                IF ~has.result
                  THEN <<Violation("pattern",
                                   "Required file name pattern not found",
                                   [j \in 1..Len(ps) |-> ps[j].source],
                                   "", 0, severity)>>
                  ELSE <<>>,
              li |-> has.li]
    ELSE [violations |-> <<>>, li |-> li]

\* the body of the per-file loop for one readable file
CheckFile(patterns, absolutePaths, file, severity, li) ==
  LET forbidden == ForbiddenPatternViolations(patterns, file, severity, li)
      required == RequiredPatternViolations(patterns, file, severity,
                                            forbidden.li)
      forbiddenName == ForbiddenFileNameViolations(patterns, file, severity,
                                                   required.li)
      requiredName == RequiredFileNameViolations(patterns, absolutePaths,
                                                 severity, forbiddenName.li)
  IN  [violations |->
         forbidden.violations
           \o required.violations
           \o ForbiddenImportViolations(patterns, file, severity)
           \o RequiredImportViolations(patterns, file, severity)
           \o forbiddenName.violations
           \o requiredName.violations,
       li |-> requiredName.li]

\* for (const filePath of absolutePaths): the violations collected, or the
\* failure of readFileSync that ends the call
RECURSIVE FileLoop(_, _, _, _, _, _)
FileLoop(patterns, absolutePaths, severity, k, violations, li) ==
  IF k > Len(absolutePaths)
    THEN [failed |-> FALSE, violations |-> violations]
  ELSE IF ~absolutePaths[k].exists
    THEN FileLoop(patterns, absolutePaths, severity, k + 1, violations, li)
  ELSE IF ~absolutePaths[k].readable
    THEN [failed |-> TRUE, violations |-> <<>>]
  ELSE LET checked == CheckFile(patterns, absolutePaths, absolutePaths[k],
                                severity, li)
       IN  FileLoop(patterns, absolutePaths, severity, k + 1,
                    violations \o checked.violations, checked.li)

\* if (!patterns): the strategy has no patterns object
NoPatternValidationConfigured(scenario) ==
  ~IsSome(scenario.validationStrategy.patterns)

\* mutant: a file that cannot be read makes the validator skip
PatternValidateSkipUnreadable(files, scenario) ==
  IF NoPatternValidationConfigured(scenario)
       \/ \E k \in 1..Len(files) : files[k].exists /\ ~files[k].readable
    THEN ValidationResult(TRUE, Skip, <<>>, "pattern", "")
  ELSE LET patterns == Val(scenario.validationStrategy.patterns)
           loop == FileLoop(patterns, files, scenario.severity, 1, <<>>,
                            FreshLastIndex(patterns))
       IN  ValidationResult(Len(loop.violations) = 0,
                            calculateScore(loop.violations),
                            loop.violations, "pattern", "")

PatternValidate(files, scenario) ==
  IF NoPatternValidationConfigured(scenario)
    THEN ValidationResult(TRUE, Skip, <<>>, "pattern", "")
  ELSE LET patterns == Val(scenario.validationStrategy.patterns)
           loop == FileLoop(patterns, files, scenario.severity, 1, <<>>,
                            FreshLastIndex(patterns))
       IN  IF loop.failed
             THEN ValidationResult(FALSE, 0, <<>>, "pattern",
                                   "Failed to read file")
             ELSE ValidationResult(Len(loop.violations) = 0,
                                   calculateScore(loop.violations),
                                   loop.violations, "pattern", "")

\* -------------------------------------------------------------- timeouts
Undefined == [kind |-> "undefined", value |-> 0]
Null == [kind |-> "null", value |-> 0]
Num(n) == [kind |-> "number", value |-> n]

\* built-in default: 2 minutes
BuiltinTimeout == 120000

\* mutant: null falls through like undefined (scenario.timeout ?? default)
ResolveTimeoutNullAsUnset(scenario, opts) ==
  IF scenario.timeout.kind = "number" THEN scenario.timeout
  ELSE IF opts.defaultTimeout.kind = "number" THEN opts.defaultTimeout
  ELSE Num(BuiltinTimeout)

\* evaluateScenario: resolve timeout (null = no timeout, undefined = defaults)
ResolveTimeout(scenario, opts) ==
  IF scenario.timeout.kind # "undefined" THEN scenario.timeout
  ELSE IF opts.defaultTimeout.kind # "undefined" THEN opts.defaultTimeout
  ELSE Num(BuiltinTimeout)

\* ------------------------------------------------------------ LLM judge
\* callLLMAPI: the judgment built from a parsed API response
LLMJudgment(apiResponse) ==
  [passed |-> apiResponse.fails = 0 /\ 10 * apiResponse.overallScore >= 7 * One,
   score |-> MathMax(0, MathMin(One, apiResponse.overallScore)),
   fails |-> apiResponse.fails]

\* env: [token, api]; api is None when the call or the parse throws, else
\* the parsed response: its overallScore (NaN when it is not numeric) and
\* the number of its FAIL evaluations
LLMJudgeValidate(files, scenario, env) ==
  LET llmConfig == scenario.validationStrategy.llmJudge
  IN  IF ~(IsSome(llmConfig) /\ Val(llmConfig).enabled)
        THEN ValidationResult(TRUE, Skip, <<>>, "llm-judge", "")
      ELSE IF ~env.token
        THEN ValidationResult(TRUE, Skip, <<>>, "llm-judge",
                              "GITHUB_TOKEN not found")
      ELSE IF \E k \in 1..Len(files) : files[k].exists /\ ~files[k].readable
        THEN ValidationResult(FALSE, 0, <<>>, "llm-judge", "LLM judge failed")
      ELSE IF ~IsSome(env.api)
        THEN ValidationResult(FALSE, 0, <<>>, "llm-judge", "LLM judge failed")
      ELSE LET judgment == LLMJudgment(Val(env.api))
           IN  ValidationResult(
                 judgment.passed, judgment.score,
                 [m \in 1..judgment.fails |->
                    Violation("llm-judge", "criterion", <<>>, "", 0,
                              scenario.severity)],
                 "llm-judge", "")

\* ---------------------------------------------------------------- ESLint
Lintable(file) == file.exists /\ file.lintable

\* score = e^(-totalWeight/2)
calculateScoreESLint(violations) ==
  IF Len(violations) = 0 THEN One
  ELSE LET totalWeight ==
             SumSeq([k \in 1..Len(violations) |-> weights(violations[k].severity)])
           score == MathExpNeg(totalWeight)
       IN  MathMax(0, MathMin(One, score))

\* env: [available, messages, failure]; messages are the ESLint severities
\* (2 or 1) reported for each linted file; failure tells how the run of
\* ESLint on a file went: "none" (JSON on stdout), "unparseable" (it threw
\* and its stdout is not JSON), "nostdout" (it threw with an empty stdout)
ESLintValidate(files, scenario, env) ==
  LET eslintConfig == scenario.validationStrategy.eslint
  IN  IF ~(IsSome(eslintConfig) /\ Val(eslintConfig).enabled)
        THEN ValidationResult(TRUE, Skip, <<>>, "eslint", "")
      ELSE IF ~env.available
        THEN ValidationResult(TRUE, Skip, <<>>, "eslint", "ESLint not found")
      ELSE LET violations ==
                 ConcatAll([k \in 1..Len(files) |->
                   IF ~Lintable(files[k]) THEN <<>>
                   ELSE IF env.failure = "none"
                     THEN [m \in 1..Len(env.messages) |->
                            Violation("eslint", "rule", <<>>, files[k].path, m,
                                      IF env.messages[m] = 2 THEN "major"
                                      ELSE "minor")]
                   ELSE IF env.failure = "unparseable"
                     THEN <<Violation("eslint", "ESLint failed", <<>>,
                                      files[k].path, 0, scenario.severity)>>
                   ELSE <<>>])
           IN  ValidationResult(Len(violations) = 0,
                                calculateScoreESLint(violations),
                                violations, "eslint", "")

\* -------------------------------------------------------------- baselines
\* The baseline store is the tree of files under .benchmarks/baselines: a
\* function from the paths of the files that exist to their contents.  A
\* path is the sequence of its segments.

\* the segments of a relative path: path.join splits its arguments at '/'
Split(s) ==
  CASE s = "gpt/4" -> <<"gpt", "4">>
    [] s = "4/s.json" -> <<"4", "s.json">>
    [] OTHER -> <<s>>

\* path.join(baselineDir, adapter, model, `${scenarioId}.json`), relative to
\* baselineDir
getBaselinePath(adapter, model, scenarioId) ==
  <<adapter>> \o Split(model) \o Split(scenarioId \o ".json")

\* JSON.stringify of a BaselineData, and JSON.parse of the text: a finite
\* score is written as its digits and read back as the same number.  (The
\* timestamp is left out: no operation reads it.)  complete tells that the
\* text runs to its closing brace.
JSONStringify(baseline) ==
  [scenarioId |-> baseline.scenarioId, score |-> Num(baseline.score),
   violations |-> baseline.violations, adapter |-> baseline.adapter,
   model |-> baseline.model, complete |-> TRUE]

\* the beginning of a text, as a write that failed part-way leaves it
Truncate(content) == [content EXCEPT !.complete = FALSE]

\* JSON.parse throws a SyntaxError on a text that is cut short
JSONParseThrows(content) == ~content.complete

JSONParse(content) ==
  [scenarioId |-> content.scenarioId, score |-> content.score.value,
   violations |-> content.violations, adapter |-> content.adapter,
   model |-> content.model]

\* how mkdirSync and writeFileSync can go: the text is written; they throw
\* and the file is as before; writeFileSync throws after it wrote a part
WriteOutcomes == {"written", "failed", "partial"}

\* how readFileSync of an existing file can go
ReadOutcomes == {"read", "failed"}

\* the store after saveBaseline, and whether it threw
saveBaseline(store, result, adapter, model, write) ==
  LET baseline == [scenarioId |-> result.scenario.id, score |-> result.score,
                   violations |-> result.violations, adapter |-> adapter,
                   model |-> model]
      baselinePath == getBaselinePath(adapter, model, result.scenario.id)
      text == IF write = "partial" THEN Truncate(JSONStringify(baseline))
              ELSE JSONStringify(baseline)
  IN  [threw |-> write # "written",
       store |-> IF write = "failed" THEN store
                 ELSE [p \in DOMAIN store \cup {baselinePath} |->
                         IF p = baselinePath THEN text ELSE store[p]]]

\* mutant: loadBaseline has no try/catch around the read and the parse
loadBaselineUncaught(store, adapter, model, scenarioId, read) ==
  LET baselinePath == getBaselinePath(adapter, model, scenarioId)
  IN  IF baselinePath \notin DOMAIN store
        THEN [threw |-> FALSE, value |-> None]
      ELSE IF read = "failed" \/ JSONParseThrows(store[baselinePath])
        THEN [threw |-> TRUE, value |-> None]
      ELSE [threw |-> FALSE, value |-> Some(JSONParse(store[baselinePath]))]

\* what loadBaseline returns (None is null), and whether it threw
loadBaseline(store, adapter, model, scenarioId, read) ==
  LET baselinePath == getBaselinePath(adapter, model, scenarioId)
  IN  IF baselinePath \notin DOMAIN store
        THEN [threw |-> FALSE, value |-> None]
      ELSE IF read = "failed" \/ JSONParseThrows(store[baselinePath])
        THEN [threw |-> FALSE, value |-> None]
      ELSE [threw |-> FALSE, value |-> Some(JSONParse(store[baselinePath]))]

\* mutant: a tie counts as an improvement
compareWithBaselineTieImproves(store, result, adapter, model, read) ==
  LET loaded == loadBaseline(store, adapter, model, result.scenario.id, read)
      baseline == loaded.value
  IN  IF loaded.threw THEN [threw |-> TRUE, value |-> None]
      ELSE IF ~IsSome(baseline) THEN [threw |-> FALSE, value |-> None]
      ELSE LET delta == result.score - Val(baseline).score
           IN  [threw |-> FALSE,
                value |-> Some([baselineScore |-> Val(baseline).score,
                                delta |-> delta,
                                isImprovement |-> delta >= 0])]

\* what compareWithBaseline returns, and whether it threw
compareWithBaseline(store, result, adapter, model, read) ==
  LET loaded == loadBaseline(store, adapter, model, result.scenario.id, read)
      baseline == loaded.value
  IN  IF loaded.threw THEN [threw |-> TRUE, value |-> None]
      ELSE IF ~IsSome(baseline) THEN [threw |-> FALSE, value |-> None]
      ELSE LET delta == result.score - Val(baseline).score
           IN  [threw |-> FALSE,
                value |-> Some([baselineScore |-> Val(baseline).score,
                                delta |-> delta,
                                isImprovement |-> delta > 0])]

\* the store after deleteBaseline, and what it returns
deleteBaseline(store, adapter, model, scenarioId) ==
  LET baselinePath == getBaselinePath(adapter, model, scenarioId)
  IN  IF baselinePath \notin DOMAIN store
        THEN [store |-> store, deleted |-> FALSE]
        ELSE [store |-> [p \in DOMAIN store \ {baselinePath} |-> store[p]],
              deleted |-> TRUE]

\* ------------------------------------------------------------ aggregation
\* mutant: skipped results are averaged too
activeResultsWithSkipped(validationResults) == validationResults

activeResults(validationResults) ==
  SelectSeq(validationResults, LAMBDA r : r.score >= 0)

overallScore(validationResults) ==
  LET active == activeResults(validationResults)
  IN  IF Len(active) > 0
        THEN SumSeq([k \in 1..Len(active) |-> active[k].score]) \div Len(active)
        ELSE 0

allViolations(validationResults) ==
  ConcatAll([k \in 1..Len(validationResults) |-> validationResults[k].violations])

\* mutant: the verdict looks at the score only
PassedIgnoringViolations(score, violations) == 10 * score >= 8 * One

\* overallScore >= 0.8 && allViolations.length === 0
Passed(score, violations) == 10 * score >= 8 * One /\ Len(violations) = 0

EvaluationResult(scenario, validationResults) ==
  LET score == overallScore(validationResults)
      violations == allViolations(validationResults)
  IN  [scenario |-> scenario,
       passed |-> Passed(score, violations),
       score |-> score,
       validationResults |-> validationResults,
       violations |-> violations,
       error |-> "",
       baselineComparison |-> None]

\* an error: what was thrown, and whether its text contains 'timed out'
Error(kind, timedOutText) == [kind |-> kind, timedOutText |-> timedOutText]

\* mutant: the error result keeps passed = true
CatchResultPassed(scenario, error) ==
  LET isTimeout == error.timedOutText
  IN  [scenario |-> scenario,
       passed |-> TRUE,
       score |-> 0,
       validationResults |-> <<>>,
       violations |->
         IF isTimeout
           THEN <<Violation("pattern", "Code generation timed out", <<>>, "",
                            0, scenario.severity)>>
           ELSE <<>>,
       error |-> "Evaluation failed: " \o error.kind,
       baselineComparison |-> None]

\* mutant: the timeout violation has a fixed severity
CatchResultFixedSeverity(scenario, error) ==
  [scenario |-> scenario,
   passed |-> FALSE,
   score |-> 0,
   validationResults |-> <<>>,
   violations |->
     IF error.timedOutText
       THEN <<Violation("pattern", "Code generation timed out", <<>>, "",
                        0, "critical")>>
       ELSE <<>>,
   error |-> "Evaluation failed: " \o error.kind,
   baselineComparison |-> None]

\* evaluateScenario's catch block
CatchResult(scenario, error) ==
  LET isTimeout == error.timedOutText
  IN  [scenario |-> scenario,
       passed |-> FALSE,
       score |-> 0,
       validationResults |-> <<>>,
       violations |->
         IF isTimeout
           THEN <<Violation("pattern", "Code generation timed out", <<>>, "",
                            0, scenario.severity)>>
           ELSE <<>>,
       error |-> "Evaluation failed: " \o error.kind,
       baselineComparison |-> None]

\* ------------------------------------------------------------------ state
VARIABLES
  options,            \* EvaluatorOptions given to the constructor
  scenarios,          \* the argument of evaluate
  baselines,          \* the baseline store: path of a file -> its content
  i,                  \* evaluate: the loop index (1-based)
  results,            \* evaluate: results
  report,             \* evaluate: the returned report, None until it returns
  phase,              \* per scenario: pending, generating, validating, returned
  timeoutArg,         \* per scenario: the timeout handed to adapter.generate
  promise,            \* per scenario: the promise returned by adapter.generate
  timer,              \* per scenario: timeoutHandle: none, armed, fired, cleared
  proc,               \* per scenario: the subprocess: none, running, signalled,
                      \*   closed, spawnfailed
  generatedFiles,     \* per scenario: evaluateScenario's generatedFiles
  validationResults,  \* per scenario: evaluateScenario's validationResults
  ret,                \* per scenario: the value evaluateScenario returned
  events,             \* the events emitted so far, in order
  pvFiles,            \* PatternValidator.validate: files
  pvScenario,         \* PatternValidator.validate: scenario
  pvResult,           \* PatternValidator.validate: the returned result
  csViolations,       \* calculateScore: the violations of two calls
  csScores,           \* calculateScore: the scores the two calls returned
  blCall,             \* BaselineManager: the last call and its arguments
  blRet,              \* BaselineManager: what the last call returned
  blThrew,            \* BaselineManager: whether the last call threw
  cli                 \* the options of the evaluate command, None when the
                      \*   Evaluator is constructed by a program

engineVars ==
  <<options, scenarios, baselines, i, results, report, phase, timeoutArg,
    promise, timer, proc, generatedFiles, validationResults, ret, events>>
pvVars == <<pvFiles, pvScenario, pvResult>>
csVars == <<csViolations, csScores>>
blVars == <<blCall, blRet, blThrew>>
cliVars == <<cli>>
unitVars == <<pvVars, csVars, blVars, cliVars>>
vars == <<engineVars, unitVars>>

\* ---------------------------------------------------------------- inputs
Lines == {"bad", "good"}

\* paths in the order git status reports them
PathPool == <<"User.spec.ts", "User.ts", "notes.md">>
LintablePaths == {"User.spec.ts", "User.ts"}

File(path, exists, readable, content) ==
  [path |-> path, exists |-> exists, readable |-> readable,
   content |-> content, lintable |-> path \in LintablePaths]

Contents == UNION {[1..m -> Lines] : m \in 0..MaxLines}

FileStates(path) ==
  {File(path, FALSE, FALSE, <<>>), File(path, TRUE, FALSE, <<>>)}
    \cup {File(path, TRUE, TRUE, c) : c \in Contents}

RECURSIVE SortedSeq(_)
SortedSeq(S) ==
  IF S = {} THEN <<>>
  ELSE LET m == CHOOSE x \in S : \A y \in S : x <= y
       IN  <<m>> \o SortedSeq(S \ {m})

FileLists ==
  UNION {
    LET idx == SortedSeq(S)
    IN  {fs \in [1..Len(idx) -> UNION {FileStates(PathPool[k]) : k \in S}] :
           \A j \in 1..Len(idx) : fs[j].path = PathPool[idx[j]]}
    : S \in {T \in SUBSET (1..Len(PathPool)) : Cardinality(T) <= MaxFiles}}

\* a regular expression: its source, its g flag, and for every line or file
\* name it matches the start and the end index of the first match
Pattern(source, global, spans) ==
  [source |-> source, global |-> global, matches |-> DOMAIN spans,
   spans |-> spans]

\* an import string and the lines that contain it
ImportMarker(source, matches) == [source |-> source, matches |-> matches]

pAny == Pattern("any", FALSE, "bad" :> <<0, 3>>)
pAnyG == Pattern("any", TRUE, "bad" :> <<0, 3>>)
pInterface == Pattern("interface User", FALSE, "good" :> <<0, 4>>)
pInterfaceG == Pattern("interface User", TRUE, "good" :> <<0, 4>>)
mLodash == ImportMarker("lodash", {"bad"})
mReact == ImportMarker("react", {"good"})
pMd == Pattern("md$", FALSE, "notes.md" :> <<6, 8>>)
pTs == Pattern("ts$", FALSE, "User.spec.ts" :> <<10, 12>> @@ "User.ts" :> <<5, 7>>)
pTsG == Pattern("ts$", TRUE, "User.spec.ts" :> <<10, 12>> @@ "User.ts" :> <<5, 7>>)
NamePatternPool ==
  << Pattern("spec.ts$", FALSE, "User.spec.ts" :> <<5, 12>>),
     Pattern("tsx$", FALSE, [s \in {} |-> <<0, 0>>]),
     pMd, pTs >>

RequiredFileNameLists ==
  {SubSeq(NamePatternPool, 1, n) : n \in 0..MathMin(MaxPatterns, Len(NamePatternPool))}

EmptyPatterns ==
  [forbiddenPatterns |-> None, requiredPatterns |-> None,
   forbiddenImports |-> None, requiredImports |-> None,
   forbiddenFileNamePatterns |-> None, requiredFileNamePatterns |-> None]

PatternCfgs ==
  {EmptyPatterns,
   [EmptyPatterns EXCEPT !.forbiddenPatterns = Some(<<pAny>>)],
   [EmptyPatterns EXCEPT !.forbiddenPatterns = Some(<<pAnyG>>)],
   [EmptyPatterns EXCEPT !.forbiddenPatterns = Some(<<pAny, pInterface>>)],
   [EmptyPatterns EXCEPT !.requiredPatterns = Some(<<pInterface>>)],
   [EmptyPatterns EXCEPT !.requiredPatterns = Some(<<pInterfaceG>>)],
   [EmptyPatterns EXCEPT !.forbiddenImports = Some(<<mLodash>>)],
   [EmptyPatterns EXCEPT !.requiredImports = Some(<<mReact>>)],
   [EmptyPatterns EXCEPT !.forbiddenFileNamePatterns = Some(<<pMd>>)],
   [EmptyPatterns EXCEPT !.forbiddenFileNamePatterns = Some(<<pTsG>>)],
   [EmptyPatterns EXCEPT !.requiredFileNamePatterns = Some(<<pTsG>>)],
   [EmptyPatterns EXCEPT !.forbiddenPatterns = Some(<<pAny>>),
                         !.requiredPatterns = Some(<<pInterface>>)]}
    \cup {[EmptyPatterns EXCEPT !.requiredFileNamePatterns = Some(l)] :
            l \in RequiredFileNameLists}
    \cup {[EmptyPatterns EXCEPT !.forbiddenPatterns = Some(<<pAny>>),
                                !.requiredFileNamePatterns = Some(l)] :
            l \in RequiredFileNameLists}

Scenario(id, severity, timeout, patterns, llmJudge, eslint) ==
  [id |-> id, severity |-> severity, timeout |-> timeout,
   validationStrategy |->
     [patterns |-> patterns, llmJudge |-> llmJudge, eslint |-> eslint]]

PVScenarios ==
  {Scenario("s1", sev, Undefined, p, None, None) :
     sev \in {"critical", "minor"},
     p \in {None} \cup {Some(c) : c \in PatternCfgs}}

IdPool == <<"s1", "s2", "s3", "s4">>

GoodFile == File("User.ts", TRUE, TRUE, <<"good">>)
BadFile == File("User.ts", TRUE, TRUE, <<"bad">>)
UnreadableFile == File("User.ts", TRUE, FALSE, <<>>)
EngineFileLists ==
  {<<>>, <<GoodFile>>, <<BadFile>>, <<UnreadableFile>>,
   <<File("User.spec.ts", TRUE, TRUE, <<"bad">>), UnreadableFile>>}

EnginePatterns ==
  {None, Some(EmptyPatterns),
   Some([EmptyPatterns EXCEPT !.forbiddenPatterns = Some(<<pAny>>)])}

EnabledCfgs == {None, Some([enabled |-> TRUE])}

EngineScenarios(id) ==
  {Scenario(id, sev, t, p, l, e) :
     sev \in {"critical", "minor"},
     t \in {Undefined, Null, Num(1000)},
     p \in EnginePatterns, l \in EnabledCfgs, e \in EnabledCfgs}

EngineOptions ==
  [adapter : {"copilot", "claude-code"},
   defaultTimeout : {Undefined, Null, Num(5000)},
   saveBaseline : BOOLEAN, compareBaseline : BOOLEAN]

ApiResponses ==
  {[overallScore |-> One, fails |-> 0],
   [overallScore |-> 4800, fails |-> 0],
   [overallScore |-> 4794, fails |-> 0],
   [overallScore |-> 4200, fails |-> 0],
   [overallScore |-> 3900, fails |-> 0],
   [overallScore |-> 5700, fails |-> 1],
   [overallScore |-> 7200, fails |-> 0],
   [overallScore |-> -600, fails |-> 0],
   [overallScore |-> NaN, fails |-> 0]}

LLMEnvs ==
  {[token |-> FALSE, api |-> None]}
    \cup {[token |-> TRUE, api |-> a] :
            a \in {None} \cup {Some(r) : r \in ApiResponses}}

ESLintEnvs ==
  {[available |-> FALSE, messages |-> <<>>, failure |-> "none"]}
    \cup {[available |-> TRUE, messages |-> m, failure |-> "none"] :
            m \in {<<>>, <<1>>, <<2, 1>>}}
    \cup {[available |-> TRUE, messages |-> <<>>, failure |-> f] :
            f \in {"unparseable", "nostdout"}}

Ids(scns) == {scns[k].id : k \in 1..Len(scns)}

\* this.options.model || 'default'
DefaultModel == "default"

\* a baseline file written by an earlier run, with score 0.5
OldBaseline(adapter, id) ==
  JSONStringify([scenarioId |-> id, score |-> 3000, violations |-> <<>>,
                 adapter |-> adapter, model |-> DefaultModel])

\* the stores an evaluation can start with: any of its scenarios may have a
\* baseline from an earlier run
BaselineStores(scns, adapter) ==
  {[p \in {getBaselinePath(adapter, DefaultModel, id) : id \in S} |->
      OldBaseline(adapter, CHOOSE id \in S :
                             p = getBaselinePath(adapter, DefaultModel, id))] :
     S \in SUBSET Ids(scns)}

NoPromise == [state |-> "none", files |-> <<>>, error |-> Error("", FALSE)]

\* this.emit(type, ...): the event and the scenario id it carries ("" for
\* the events of the evaluation)
Event(type, id) == [type |-> type, id |-> id]

\* ------------------------------------------------------------------- Init
\* evaluate(scns) has been called and has emitted evaluation:start
EngineStart(scns) ==
  /\ scenarios = scns
  /\ events = <<Event("evaluation:start", "")>>
  /\ i = 1
  /\ results = <<>>
  /\ report = None
  /\ phase = [k \in 1..Len(scns) |-> "pending"]
  /\ timeoutArg = [k \in 1..Len(scns) |-> Undefined]
  /\ promise = [k \in 1..Len(scns) |-> NoPromise]
  /\ timer = [k \in 1..Len(scns) |-> "none"]
  /\ proc = [k \in 1..Len(scns) |-> "none"]
  /\ generatedFiles = [k \in 1..Len(scns) |-> <<>>]
  /\ validationResults = [k \in 1..Len(scns) |-> <<>>]
  /\ ret = [k \in 1..Len(scns) |-> None]

PVIdle ==
  /\ pvFiles = <<>>
  /\ pvScenario = Scenario("s1", "critical", Undefined, None, None, None)
  /\ pvResult = None

CSIdle ==
  /\ csViolations = <<<<>>, <<>>>>
  /\ csScores = None

NoCall == [op |-> "none", adapter |-> "", model |-> "", scenarioId |-> "",
           score |-> 0, io |-> ""]

BLIdle ==
  /\ blCall = NoCall
  /\ blRet = None
  /\ blThrew = FALSE

\* the Evaluator is constructed by a program, not by the evaluate command
NoCLI == cli = None

\* one scenario, every combination of its settings and of the options
InitScenario ==
  /\ options \in EngineOptions
  /\ \E scns \in {<<>>} \cup {<<s>> : s \in EngineScenarios(IdPool[1])} :
       /\ EngineStart(scns)
       /\ baselines \in BaselineStores(scns, options.adapter)
  /\ PVIdle
  /\ CSIdle
  /\ BLIdle
  /\ NoCLI

\* a batch of up to MaxScenarios scenarios of a few kinds
BatchScenarios(id) ==
  {Scenario(id, "critical", Num(1000),
            Some([EmptyPatterns EXCEPT !.forbiddenPatterns = Some(<<pAny>>)]),
            None, None),
   Scenario(id, "minor", Null, None, Some([enabled |-> TRUE]), None)}

BatchOptions ==
  {o \in EngineOptions :
     o.defaultTimeout = Undefined /\ o.saveBaseline = o.compareBaseline}

BatchFileLists == {<<GoodFile>>, <<BadFile>>}
BatchLLMEnvs ==
  {[token |-> TRUE, api |-> None],
   [token |-> TRUE, api |-> Some([overallScore |-> One, fails |-> 0])]}
BatchESLintEnvs == {[available |-> FALSE, messages |-> <<>>, failure |-> "none"]}

InitBatch ==
  /\ options \in BatchOptions
  /\ \E n \in 0..MaxScenarios :
       \E scns \in [1..n -> UNION {BatchScenarios(IdPool[k]) : k \in 1..n}] :
         /\ \A k \in 1..n : scns[k].id = IdPool[k]
         /\ EngineStart(scns)
         /\ baselines \in {s \in BaselineStores(scns, options.adapter) :
                             DOMAIN s = {} \/ Cardinality(DOMAIN s) = n}
  /\ PVIdle
  /\ CSIdle
  /\ BLIdle
  /\ NoCLI

\* one call of PatternValidator.validate
InitPV ==
  /\ options = [adapter |-> "copilot", defaultTimeout |-> Undefined,
                saveBaseline |-> FALSE, compareBaseline |-> FALSE]
  /\ EngineStart(<<>>)
  /\ baselines = <<>>
  /\ pvFiles \in FileLists
  /\ pvScenario \in PVScenarios
  /\ pvResult = None
  /\ CSIdle
  /\ BLIdle
  /\ NoCLI

\* no evaluation is running
EngineIdle ==
  /\ options = [adapter |-> "copilot", defaultTimeout |-> Undefined,
                saveBaseline |-> FALSE, compareBaseline |-> FALSE]
  /\ EngineStart(<<>>)

\* the violation lists calculateScore can be given: any severities, in any
\* order, up to MaxViolations of them
ViolationLists ==
  UNION {[1..n -> {Violation("pattern", "v", <<>>, "", 0, sev) :
                     sev \in Severities}] : n \in 0..MaxViolations}

\* two calls of PatternValidator.calculateScore
InitScore ==
  /\ EngineIdle
  /\ baselines = <<>>
  /\ PVIdle
  /\ BLIdle
  /\ csViolations \in ViolationLists \X ViolationLists
  /\ csScores = None
  /\ NoCLI

\* the keys the baseline manager is called with
BaselineAdapters == {"copilot", "claude-code"}
BaselineModels == {"gpt", "gpt/4"}
BaselineIds == {"s", "4/s"}
BaselineScores == {3000, 6000}

\* the result handed to saveBaseline and compareWithBaseline
BaselineResult(scenarioId, score) ==
  [scenario |-> [id |-> scenarioId], score |-> score, violations |-> <<>>]

\* a baseline manager over an empty .benchmarks/baselines directory
InitBaseline ==
  /\ EngineIdle
  /\ baselines = <<>>
  /\ PVIdle
  /\ CSIdle
  /\ BLIdle
  /\ NoCLI

\* the values --threshold is given; "0.8" is what it holds when left out
CLIThresholds == {"0.8", "0.5", "0.9"}

\* the options of the evaluate command that reach the Evaluator or the
\* verdict; --save-baseline and --compare-baseline are flags
CLIOptions ==
  [adapter : {"copilot", "claude-code"}, threshold : CLIThresholds,
   saveBaseline : BOOLEAN, compareBaseline : BOOLEAN]

\* what loadConfig returns, as far as the Evaluator is given it
Configs == [defaultTimeout : {Undefined, Null}]

\* new Evaluator({ adapter, model, workspaceRoot, defaultTimeout, verbose,
\* saveBaseline, compareBaseline }) in the action of the evaluate command
NewEvaluator(cliOptions, config) ==
  [adapter |-> cliOptions.adapter, defaultTimeout |-> config.defaultTimeout,
   saveBaseline |-> cliOptions.saveBaseline,
   compareBaseline |-> cliOptions.compareBaseline]

\* the evaluate command with one scenario (or none) left by the filters
InitCLI ==
  /\ cli \in {Some(c) : c \in CLIOptions}
  /\ options \in {NewEvaluator(Val(cli), config) : config \in Configs}
  /\ \E scns \in {<<>>} \cup {<<s>> : s \in BatchScenarios(IdPool[1])} :
       EngineStart(scns)
  /\ baselines = <<>>
  /\ PVIdle
  /\ CSIdle
  /\ BLIdle

\* ---------------------------------------------------------------- adapter
Alive(k) == proc[k] \in {"running", "signalled"}

\* resolve / reject: only the first settlement of a promise counts
Resolve(pr, files) ==
  IF pr.state = "pending" THEN [pr EXCEPT !.state = "resolved", !.files = files]
  ELSE pr

\* mutant: a later reject replaces the settlement
RejectOverrides(pr, error) ==
  [pr EXCEPT !.state = "rejected", !.error = error]

Reject(pr, error) ==
  IF pr.state = "pending" THEN [pr EXCEPT !.state = "rejected", !.error = error]
  ELSE pr

\* proc.kill('SIGTERM'): the signal is sent; the subprocess is gone only
\* once it has closed
Kill(state) == IF state = "running" THEN "signalled" ELSE state

\* if (timeoutHandle) clearTimeout(timeoutHandle)
ClearTimeout(state) == IF state = "armed" THEN "cleared" ELSE state

\* if (timeout !== null && timeout !== undefined) setTimeout(...)
SetTimeout(timeout) == IF timeout.kind = "number" THEN "armed" ELSE "none"

\* mutant: evaluateScenario is started for every scenario without awaiting
LoopAtUnawaited(k) == k <= Len(scenarios) /\ phase[k] = "pending"

\* evaluate: the loop reaches scenario k once evaluateScenario of the
\* scenario before it has been awaited
LoopAt(k) == i = k /\ k <= Len(scenarios) /\ phase[k] = "pending"

\* evaluate emits scenario:start and calls evaluateScenario, which emits
\* scenario:generating and runs up to `await this.adapter.generate(...)`;
\* generate runs until it returns its promise.  preFail: the Claude
\* adapter's git status before spawning throws.
StartScenario(k, preFail) ==
  /\ LoopAt(k)
  /\ preFail => options.adapter = "claude-code"
  /\ LET timeout == ResolveTimeout(scenarios[k], options)
     IN  /\ timeoutArg' = [timeoutArg EXCEPT ![k] = timeout]
         /\ IF preFail
              THEN /\ promise' = [promise EXCEPT ![k] =
                        [NoPromise EXCEPT !.state = "rejected",
                           !.error = Error("Failed to get git status", FALSE)]]
                   /\ UNCHANGED <<proc, timer>>
              ELSE /\ promise' = [promise EXCEPT ![k] =
                        [NoPromise EXCEPT !.state = "pending"]]
                   /\ proc' = [proc EXCEPT ![k] = "running"]
                   /\ timer' = [timer EXCEPT ![k] = SetTimeout(timeout)]
  /\ phase' = [phase EXCEPT ![k] = "generating"]
  /\ events' = events \o <<Event("scenario:start", scenarios[k].id),
                            Event("scenario:generating", scenarios[k].id)>>
  /\ UNCHANGED <<options, scenarios, baselines, i, results, report,
                 generatedFiles, validationResults, ret, unitVars>>

\* setTimeout callback: proc.kill('SIGTERM'); reject(... timed out ...)
TimeoutFires(k) ==
  /\ timer[k] = "armed"
  /\ timer' = [timer EXCEPT ![k] = "fired"]
  /\ proc' = [proc EXCEPT ![k] = Kill(proc[k])]
  /\ promise' = [promise EXCEPT ![k] = Reject(promise[k], Error("timed out", TRUE))]
  /\ UNCHANGED <<options, scenarios, baselines, i, results, report, phase,
                 timeoutArg, generatedFiles, validationResults, ret, events, unitVars>>

\* proc.on('close'): exit code 0 with the changed files read (files is Some)
\* or not readable (None), or a nonzero code whose stderr may hold any text
ProcClose(k, ok, files, stderrTimedOut) ==
  /\ Alive(k)
  /\ proc' = [proc EXCEPT ![k] = "closed"]
  /\ timer' = [timer EXCEPT ![k] = ClearTimeout(timer[k])]
  /\ promise' = [promise EXCEPT ![k] =
       IF ~ok
         THEN Reject(promise[k], Error("exited with code", stderrTimedOut))
       ELSE IF IsSome(files)
         THEN Resolve(promise[k], Val(files))
       ELSE Reject(promise[k], Error("Failed to get changed files", FALSE))]
  /\ UNCHANGED <<options, scenarios, baselines, i, results, report, phase,
                 timeoutArg, generatedFiles, validationResults, ret, events, unitVars>>

\* proc.on('error'): the subprocess could not be spawned
ProcError(k) ==
  /\ proc[k] = "running"
  /\ proc' = [proc EXCEPT ![k] = "spawnfailed"]
  /\ timer' = [timer EXCEPT ![k] = ClearTimeout(timer[k])]
  /\ promise' = [promise EXCEPT ![k] =
       Reject(promise[k], Error("Failed to spawn", FALSE))]
  /\ UNCHANGED <<options, scenarios, baselines, i, results, report, phase,
                 timeoutArg, generatedFiles, validationResults, ret, events, unitVars>>

\* ----------------------------------------------------------------- engine
\* mutant: a failed generation is swallowed and validated as "no files"
GenerateRejectedSwallowed(k) ==
  /\ phase[k] = "generating"
  /\ promise[k].state = "rejected"
  /\ generatedFiles' = [generatedFiles EXCEPT ![k] = <<>>]
  /\ validationResults' = [validationResults EXCEPT ![k] =
       <<PatternValidate(<<>>, scenarios[k])>>]
  /\ phase' = [phase EXCEPT ![k] = "validating"]
  /\ UNCHANGED <<options, scenarios, baselines, i, results, report, timeoutArg,
                 promise, timer, proc, ret, events, unitVars>>

\* mutant: the failed result is saved as the scenario's baseline
GenerateRejectedSavesBaseline(k) ==
  /\ phase[k] = "generating"
  /\ promise[k].state = "rejected"
  /\ ret' = [ret EXCEPT ![k] = Some(CatchResult(scenarios[k], promise[k].error))]
  /\ phase' = [phase EXCEPT ![k] = "returned"]
  /\ baselines' =
       IF options.saveBaseline
         THEN saveBaseline(baselines,
                           CatchResult(scenarios[k], promise[k].error),
                           options.adapter, DefaultModel, "written").store
         ELSE baselines
  /\ UNCHANGED <<options, scenarios, i, results, report, timeoutArg,
                 promise, timer, proc, generatedFiles, validationResults,
                 events, unitVars>>

\* mutant: scenario:validating is emitted for a failed generation too
GenerateRejectedEmitsValidating(k) ==
  /\ phase[k] = "generating"
  /\ promise[k].state = "rejected"
  /\ ret' = [ret EXCEPT ![k] = Some(CatchResult(scenarios[k], promise[k].error))]
  /\ phase' = [phase EXCEPT ![k] = "returned"]
  /\ events' = Append(events, Event("scenario:validating", scenarios[k].id))
  /\ UNCHANGED <<options, scenarios, baselines, i, results, report, timeoutArg,
                 promise, timer, proc, generatedFiles, validationResults,
                 unitVars>>

\* evaluateScenario resumes after a rejected generate: the catch block
GenerateRejected(k) ==
  /\ phase[k] = "generating"
  /\ promise[k].state = "rejected"
  /\ ret' = [ret EXCEPT ![k] = Some(CatchResult(scenarios[k], promise[k].error))]
  /\ phase' = [phase EXCEPT ![k] = "returned"]
  /\ UNCHANGED <<options, scenarios, baselines, i, results, report, timeoutArg,
                 promise, timer, proc, generatedFiles, validationResults,
                 events, unitVars>>

\* evaluateScenario resumes after a fulfilled generate: scenario:validating
\* is emitted and the pattern validator runs
RunPatternValidator(k) ==
  /\ phase[k] = "generating"
  /\ promise[k].state = "resolved"
  /\ generatedFiles' = [generatedFiles EXCEPT ![k] = promise[k].files]
  /\ validationResults' = [validationResults EXCEPT ![k] =
       <<PatternValidate(promise[k].files, scenarios[k])>>]
  /\ phase' = [phase EXCEPT ![k] = "validating"]
  /\ events' = Append(events, Event("scenario:validating", scenarios[k].id))
  /\ UNCHANGED <<options, scenarios, baselines, i, results, report, timeoutArg,
                 promise, timer, proc, ret, unitVars>>

RunLLMJudge(k, env) ==
  /\ phase[k] = "validating"
  /\ Len(validationResults[k]) = 1
  /\ validationResults' = [validationResults EXCEPT ![k] =
       Append(@, LLMJudgeValidate(generatedFiles[k], scenarios[k], env))]
  /\ UNCHANGED <<options, scenarios, baselines, i, results, report, phase,
                 timeoutArg, promise, timer, proc, generatedFiles, ret, events, unitVars>>

RunESLint(k, env) ==
  /\ phase[k] = "validating"
  /\ Len(validationResults[k]) = 2
  /\ validationResults' = [validationResults EXCEPT ![k] =
       Append(@, ESLintValidate(generatedFiles[k], scenarios[k], env))]
  /\ UNCHANGED <<options, scenarios, baselines, i, results, report, phase,
                 timeoutArg, promise, timer, proc, generatedFiles, ret, events, unitVars>>

\* mutant: the baseline is saved before the comparison is computed
ScoreAndBaselineSaveFirst(k, read, write) ==
  /\ phase[k] = "validating"
  /\ Len(validationResults[k]) = 3
  /\ read # "read" =>
       /\ options.compareBaseline
       /\ getBaselinePath(options.adapter, DefaultModel, scenarios[k].id)
            \in DOMAIN baselines
  /\ write # "written" => options.saveBaseline
  /\ LET result == EvaluationResult(scenarios[k], validationResults[k])
         saved == saveBaseline(baselines, result, options.adapter,
                               DefaultModel, write)
         comparison ==
           compareWithBaseline(
             IF options.saveBaseline THEN saved.store ELSE baselines,
             result, options.adapter, DefaultModel, read)
         compared ==
           IF options.compareBaseline
             THEN [result EXCEPT !.baselineComparison = comparison.value]
             ELSE result
     IN  IF options.compareBaseline /\ comparison.threw
           THEN /\ ret' = [ret EXCEPT ![k] =
                     Some(CatchResult(scenarios[k],
                                      Error("baseline read failed", FALSE)))]
                /\ UNCHANGED baselines
         ELSE IF options.saveBaseline
           THEN /\ ret' = [ret EXCEPT ![k] =
                     IF saved.threw
                       THEN Some(CatchResult(scenarios[k],
                                   Error("baseline write failed", FALSE)))
                       ELSE Some(compared)]
                /\ baselines' = saved.store
         ELSE /\ ret' = [ret EXCEPT ![k] = Some(compared)]
              /\ UNCHANGED baselines
  /\ phase' = [phase EXCEPT ![k] = "returned"]
  /\ generatedFiles' = [generatedFiles EXCEPT ![k] = <<>>]
  /\ validationResults' = [validationResults EXCEPT ![k] = <<>>]
  /\ UNCHANGED <<options, scenarios, i, results, report, timeoutArg, promise,
                 timer, proc, events, unitVars>>

\* the rest of the try block: score, verdict, baseline compare and save.
\* read and write tell how the read and the write of the baseline file go;
\* what compareWithBaseline or saveBaseline throws, the catch block turns
\* into a failed result.
ScoreAndBaseline(k, read, write) ==
  /\ phase[k] = "validating"
  /\ Len(validationResults[k]) = 3
  /\ read # "read" =>
       /\ options.compareBaseline
       /\ getBaselinePath(options.adapter, DefaultModel, scenarios[k].id)
            \in DOMAIN baselines
  /\ write # "written" => options.saveBaseline
  /\ LET result == EvaluationResult(scenarios[k], validationResults[k])
         comparison == compareWithBaseline(baselines, result, options.adapter,
                                           DefaultModel, read)
         compared ==
           IF options.compareBaseline
             THEN [result EXCEPT !.baselineComparison = comparison.value]
             ELSE result
         saved == saveBaseline(baselines, compared, options.adapter,
                               DefaultModel, write)
     IN  IF options.compareBaseline /\ comparison.threw
           THEN /\ ret' = [ret EXCEPT ![k] =
                     Some(CatchResult(scenarios[k],
                                      Error("baseline read failed", FALSE)))]
                /\ UNCHANGED baselines
         ELSE IF options.saveBaseline
           THEN /\ ret' = [ret EXCEPT ![k] =
                     IF saved.threw
                       THEN Some(CatchResult(scenarios[k],
                                   Error("baseline write failed", FALSE)))
                       ELSE Some(compared)]
                /\ baselines' = saved.store
         ELSE /\ ret' = [ret EXCEPT ![k] = Some(compared)]
              /\ UNCHANGED baselines
  /\ phase' = [phase EXCEPT ![k] = "returned"]
  /\ generatedFiles' = [generatedFiles EXCEPT ![k] = <<>>]
  /\ validationResults' = [validationResults EXCEPT ![k] = <<>>]
  /\ UNCHANGED <<options, scenarios, i, results, report, timeoutArg, promise,
                 timer, proc, events, unitVars>>

\* `await this.evaluateScenario(scenario)` has a value
Awaited(k) == phase[k] = "returned"

\* mutant: a result that carries an error is not pushed
LoopNextDropsFailed ==
  /\ i <= Len(scenarios)
  /\ phase[i] = "returned"
  /\ results' = IF Val(ret[i]).error # "" THEN results
                ELSE Append(results, Val(ret[i]))
  /\ i' = i + 1
  /\ events' = Append(events, Event("scenario:complete", scenarios[i].id))
  /\ UNCHANGED <<options, scenarios, baselines, report, phase, timeoutArg,
                 promise, timer, proc, generatedFiles, validationResults, ret,
                 unitVars>>

\* evaluate: results.push(result); emit scenario:complete; i++
LoopNext ==
  /\ i <= Len(scenarios)
  /\ Awaited(i)
  /\ results' = Append(results, Val(ret[i]))
  /\ i' = i + 1
  /\ events' = Append(events, Event("scenario:complete", scenarios[i].id))
  /\ UNCHANGED <<options, scenarios, baselines, report, phase, timeoutArg,
                 promise, timer, proc, generatedFiles, validationResults, ret,
                 unitVars>>

\* mutant: failed counts every result that did not pass
SummarizeFailedCountsErrors ==
  /\ i > Len(scenarios)
  /\ report = None
  /\ report' = Some(
       [results |-> results,
        summary |->
          [total |-> Len(scenarios),
           passed |-> Len(SelectSeq(results, LAMBDA r : r.passed)),
           failed |-> Len(SelectSeq(results, LAMBDA r : ~r.passed)),
           skipped |-> Len(SelectSeq(results, LAMBDA r : r.error # "")),
           averageScore |->
             IF Len(results) > 0
               THEN SumSeq([k \in 1..Len(results) |-> results[k].score])
                      \div Len(results)
               ELSE 0,
           totalViolations |->
             SumSeq([k \in 1..Len(results) |-> Len(results[k].violations)])]])
  /\ events' = Append(events, Event("evaluation:complete", ""))
  /\ UNCHANGED <<options, scenarios, baselines, i, results, phase, timeoutArg,
                 promise, timer, proc, generatedFiles, validationResults, ret,
                 unitVars>>

\* evaluate after the loop: the summary, the report, evaluation:complete
Summarize ==
  /\ i > Len(scenarios)
  /\ report = None
  /\ report' = Some(
       [results |-> results,
        summary |->
          [total |-> Len(scenarios),
           passed |-> Len(SelectSeq(results, LAMBDA r : r.passed)),
           failed |-> Len(SelectSeq(results, LAMBDA r : ~r.passed /\ r.error = "")),
           skipped |-> Len(SelectSeq(results, LAMBDA r : r.error # "")),
           averageScore |->
             IF Len(results) > 0
               THEN SumSeq([k \in 1..Len(results) |-> results[k].score])
                      \div Len(results)
               ELSE 0,
           totalViolations |->
             SumSeq([k \in 1..Len(results) |-> Len(results[k].violations)])]])
  /\ events' = Append(events, Event("evaluation:complete", ""))
  /\ UNCHANGED <<options, scenarios, baselines, i, results, phase, timeoutArg,
                 promise, timer, proc, generatedFiles, validationResults, ret,
                 unitVars>>

\* ------------------------------------------------- PatternValidator alone
PVValidate ==
  /\ pvResult = None
  /\ pvResult' = Some(PatternValidate(pvFiles, pvScenario))
  /\ UNCHANGED <<pvFiles, pvScenario, engineVars, csVars, blVars, cliVars>>

\* ---------------------------------------------------- calculateScore alone
CalculateScores ==
  /\ csScores = None
  /\ csScores' = Some(<<calculateScore(csViolations[1]),
                        calculateScore(csViolations[2])>>)
  /\ UNCHANGED <<csViolations, engineVars, pvVars, blVars, cliVars>>

\* --------------------------------------------------- BaselineManager alone
\* a call, its arguments, and how its file operation went
Call(op, adapter, model, scenarioId, score, io) ==
  [op |-> op, adapter |-> adapter, model |-> model,
   scenarioId |-> scenarioId, score |-> score, io |-> io]

SaveBaselineCall(adapter, model, scenarioId, score, write) ==
  /\ LET saved == saveBaseline(baselines, BaselineResult(scenarioId, score),
                               adapter, model, write)
     IN  /\ baselines' = saved.store
         /\ blThrew' = saved.threw
  /\ blCall' = Call("saveBaseline", adapter, model, scenarioId, score, write)
  /\ blRet' = None
  /\ UNCHANGED <<options, scenarios, i, results, report, phase, timeoutArg,
                 promise, timer, proc, generatedFiles, validationResults, ret,
                 events, pvVars, csVars, cliVars>>

LoadBaselineCall(adapter, model, scenarioId, read) ==
  /\ LET loaded == loadBaseline(baselines, adapter, model, scenarioId, read)
     IN  /\ blRet' = loaded.value
         /\ blThrew' = loaded.threw
  /\ blCall' = Call("loadBaseline", adapter, model, scenarioId, 0, read)
  /\ UNCHANGED <<engineVars, pvVars, csVars, cliVars>>

CompareWithBaselineCall(adapter, model, scenarioId, score, read) ==
  /\ LET compared == compareWithBaseline(baselines,
                                         BaselineResult(scenarioId, score),
                                         adapter, model, read)
     IN  /\ blRet' = compared.value
         /\ blThrew' = compared.threw
  /\ blCall' = Call("compareWithBaseline", adapter, model, scenarioId, score,
                    read)
  /\ UNCHANGED <<engineVars, pvVars, csVars, cliVars>>

DeleteBaselineCall(adapter, model, scenarioId) ==
  /\ LET deletion == deleteBaseline(baselines, adapter, model, scenarioId)
     IN  /\ baselines' = deletion.store
         /\ blRet' = Some(deletion.deleted)
  /\ blThrew' = FALSE
  /\ blCall' = Call("deleteBaseline", adapter, model, scenarioId, 0, "")
  /\ UNCHANGED <<options, scenarios, i, results, report, phase, timeoutArg,
                 promise, timer, proc, generatedFiles, validationResults, ret,
                 events, pvVars, csVars, cliVars>>

\* ----------------------------------------------------------- next, specs
NextWith(fileLists, llmEnvs, eslintEnvs, reads, writes) ==
  \/ \E k \in 1..Len(scenarios), preFail \in BOOLEAN : StartScenario(k, preFail)
  \/ \E k \in 1..Len(scenarios) : TimeoutFires(k)
  \/ \E k \in 1..Len(scenarios), ok \in BOOLEAN,
        files \in {None} \cup {Some(f) : f \in fileLists},
        stderrTimedOut \in BOOLEAN :
       ProcClose(k, ok, files, stderrTimedOut)
  \/ \E k \in 1..Len(scenarios) : ProcError(k)
  \/ \E k \in 1..Len(scenarios) : GenerateRejected(k)
  \/ \E k \in 1..Len(scenarios) : RunPatternValidator(k)
  \/ \E k \in 1..Len(scenarios), env \in llmEnvs : RunLLMJudge(k, env)
  \/ \E k \in 1..Len(scenarios), env \in eslintEnvs : RunESLint(k, env)
  \/ \E k \in 1..Len(scenarios), read \in reads, write \in writes :
       ScoreAndBaseline(k, read, write)
  \/ LoopNext
  \/ Summarize

Next ==
  NextWith(EngineFileLists, LLMEnvs, ESLintEnvs, ReadOutcomes, WriteOutcomes)

\* the file operations of the baseline manager a batch meets
BatchReads == {"read"}
BatchWrites == {"written", "failed"}

NextBatch ==
  NextWith(BatchFileLists, BatchLLMEnvs, BatchESLintEnvs, BatchReads,
           BatchWrites)

NextPV == PVValidate

NextCLI ==
  NextWith(BatchFileLists, LLMEnvs, BatchESLintEnvs, BatchReads, BatchWrites)

\* the evaluate command: the Evaluator it constructs evaluating a scenario
SpecCLI == InitCLI /\ [][NextCLI]_vars

\* one scenario: evaluateScenario in full
Spec == InitScenario /\ [][Next]_vars

\* evaluate over a batch
SpecBatch == InitBatch /\ [][NextBatch]_vars

\* one call of PatternValidator.validate
SpecPV == InitPV /\ [][NextPV]_vars

NextScore == CalculateScores

\* calculateScore on pairs of violation lists
SpecScore == InitScore /\ [][NextScore]_vars

BaselineCalls(adapters, models, ids, reads, writes) ==
  \E adapter \in adapters, model \in models, scenarioId \in ids :
    \/ \E score \in BaselineScores, write \in writes :
         SaveBaselineCall(adapter, model, scenarioId, score, write)
    \/ \E read \in reads :
         LoadBaselineCall(adapter, model, scenarioId, read)
    \/ \E score \in BaselineScores, read \in reads :
         CompareWithBaselineCall(adapter, model, scenarioId, score, read)
    \/ DeleteBaselineCall(adapter, model, scenarioId)

NextBaseline ==
  BaselineCalls(BaselineAdapters, BaselineModels, BaselineIds,
                {"read"}, {"written"})

\* any sequence of calls of the baseline manager, every file operation
\* succeeding
SpecBaseline == InitBaseline /\ [][NextBaseline]_vars

NextBaselineIO ==
  BaselineCalls({"copilot"}, {"gpt"}, BaselineIds, ReadOutcomes, WriteOutcomes)

\* any sequence of calls of the baseline manager under one adapter and
\* model, with file operations that may fail
SpecBaselineIO == InitBaseline /\ [][NextBaselineIO]_vars

\* ================================================================= claims
Returned(k) == IsSome(ret[k])
Result(k) == Val(ret[k])
Scns == 1..Len(scenarios)

RECURSIVE SumOver(_, _)
SumOver(S, f) ==
  IF S = {} THEN 0
  ELSE LET x == CHOOSE y \in S : TRUE IN f[x] + SumOver(S \ {x}, f)

\* C1: every result evaluateScenario returns has passed = TRUE exactly when
\* its score is at least 0.8 and its violation list is empty.
C1_PassedIffThresholdAndNoViolations ==
  \A k \in Scns :
    Returned(k) =>
      (Result(k).passed <=>
         (10 * Result(k).score >= 8 * One /\ Result(k).violations = <<>>))

\* C1 witness: validators completed with a score of exactly 0.8 and no
\* violation, and the scenario passed.
C1_Witness ==
  \E k \in Scns :
    /\ Returned(k)
    /\ Result(k).error = ""
    /\ 10 * Result(k).score = 8 * One
    /\ Result(k).violations = <<>>
    /\ Result(k).passed

\* C2: the score of a result whose validators completed is the mean of the
\* validator scores that are >= 0; with every validator at -1 the score is 0
\* and the scenario is not passed.
C2_ScoreIsMeanOfActiveResults ==
  \A k \in Scns :
    (Returned(k) /\ Result(k).error = "") =>
      LET vr == Result(k).validationResults
          act == {j \in 1..Len(vr) : vr[j].score >= 0}
      IN  /\ Len(vr) = 3
          /\ act = {} => (Result(k).score = 0 /\ ~Result(k).passed)
          /\ act # {} =>
               Result(k).score * Cardinality(act)
                 = SumOver(act, [j \in act |-> vr[j].score])

\* C2 witness: a result with a skipped validator and two validators that
\* ran with different scores.
C2_Witness ==
  \E k \in Scns :
    /\ Returned(k)
    /\ Result(k).error = ""
    /\ LET vr == Result(k).validationResults
       IN  /\ vr[1].score = Skip
           /\ vr[2].score > 0
           /\ vr[3].score > 0
           /\ vr[2].score # vr[3].score

\* C3: the timeout handed to generate is the scenario's timeout when it is
\* set (a number or null), else the batch default when it is set (a number
\* or null), else 120000; a scenario-level null is handed on as null.
C3_TimeoutPrecedence ==
  \A k \in Scns :
    phase[k] # "pending" =>
      LET own == scenarios[k].timeout
          dflt == options.defaultTimeout
      IN  /\ own.kind \in {"number", "null"} => timeoutArg[k] = own
          /\ (own.kind = "undefined" /\ dflt.kind \in {"number", "null"})
               => timeoutArg[k] = dflt
          /\ (own.kind = "undefined" /\ dflt.kind = "undefined")
               => timeoutArg[k] = Num(120000)
          /\ own.kind = "null" => (timeoutArg[k].kind = "null" /\ timer[k] = "none")

\* C3 witness: generate was called for a scenario with an explicit null
\* timeout under a numeric batch default.
C3_Witness ==
  \E k \in Scns :
    /\ phase[k] = "generating"
    /\ scenarios[k].timeout = Null
    /\ options.defaultTimeout.kind = "number"
    /\ timeoutArg[k] = Null

\* C4: when generate fails, no validator runs for the scenario and the
\* result has score 0, passed = FALSE, no validation results and an error.
C4_GenerationFailureResult ==
  \A k \in Scns :
    promise[k].state = "rejected" =>
      /\ phase[k] # "validating"
      /\ validationResults[k] = <<>>
      /\ Returned(k) =>
           /\ Result(k).score = 0
           /\ ~Result(k).passed
           /\ Result(k).validationResults = <<>>
           /\ Result(k).error # ""

\* C4 witness: a scenario whose subprocess exited with a nonzero code has
\* returned its result.
C4_Witness ==
  \E k \in Scns :
    /\ promise[k].state = "rejected"
    /\ promise[k].error.kind = "exited with code"
    /\ Returned(k)

\* C5: the results hold one result per scenario evaluated so far, in input
\* order, and the report holds exactly one result per input scenario.
C5_OneResultPerScenarioInOrder ==
  /\ Len(results) = i - 1
  /\ \A k \in 1..Len(results) : results[k].scenario = scenarios[k]
  /\ IsSome(report) =>
       /\ Len(Val(report).results) = Len(scenarios)
       /\ \A k \in Scns : Val(report).results[k].scenario = scenarios[k]

\* C5 witness: a report of two scenarios, the first of which failed.
C5_Witness ==
  /\ IsSome(report)
  /\ Len(scenarios) = 2
  /\ Val(report).results[1].error # ""
  /\ Val(report).results[2].error = ""

\* C6: when the timeout fired during generation, the result has the
\* timeout error, score 0, passed = FALSE, no validation results and
\* exactly one violation, which has the scenario's severity.
C6_TimeoutResult ==
  \A k \in Scns :
    (timer[k] = "fired" /\ Returned(k)) =>
      /\ timeoutArg[k].kind = "number"
      /\ Result(k).error = "Evaluation failed: timed out"
      /\ Result(k).score = 0
      /\ ~Result(k).passed
      /\ Result(k).validationResults = <<>>
      /\ Len(Result(k).violations) = 1
      /\ Result(k).violations[1].severity = scenarios[k].severity

\* C6 witness: the timeout fired for a scenario of severity minor and the
\* scenario has returned.
C6_Witness ==
  \E k \in Scns :
    /\ timer[k] = "fired"
    /\ Returned(k)
    /\ scenarios[k].severity = "minor"

\* C7: scenarios run one after another: a scenario that has started finds
\* every earlier scenario returned, so at most one scenario is generating
\* or validating.
C7_ScenariosSequential ==
  /\ \A j \in Scns, k \in Scns :
       (j < k /\ phase[k] # "pending") => phase[j] = "returned"
  /\ Cardinality({k \in Scns : phase[k] \in {"generating", "validating"}}) <= 1

\* C7 witness: the second scenario is validating after the first returned.
C7_Witness ==
  /\ Len(scenarios) >= 2
  /\ phase[1] = "returned"
  /\ phase[2] = "validating"

\* C8: at most one generation subprocess is alive at any time.
C8_AtMostOneSubprocessAlive ==
  Cardinality({k \in Scns : Alive(k)}) <= 1

\* no rule list of the scenario is present and non-empty
NoRuleListConfigured(scenario) ==
  \/ ~IsSome(scenario.validationStrategy.patterns)
  \/ LET p == Val(scenario.validationStrategy.patterns)
     IN  \A l \in {p.forbiddenPatterns, p.requiredPatterns, p.forbiddenImports,
                   p.requiredImports, p.forbiddenFileNamePatterns,
                   p.requiredFileNamePatterns} :
           ~IsSome(l) \/ Val(l) = <<>>

\* C9: validate returns the skip score -1 whenever no rule list is present
\* and non-empty.
C9_SkipWhenNoRuleListConfigured ==
  (IsSome(pvResult) /\ NoRuleListConfigured(pvScenario))
    => Val(pvResult).score = Skip

\* some generated file has a name that some pattern of the list matches
SomeFileNameMatches(files, ps) ==
  \E k \in 1..Len(files), j \in 1..Len(ps) : files[k].path \in ps[j].matches

\* C10: with requiredFileNamePatterns configured, validate produces exactly
\* one required-filename violation when no generated file name matches a
\* pattern, and none when some file name matches.
C10_OneRequiredFileNameViolation ==
  (/\ IsSome(pvResult)
   /\ Val(pvResult).error = ""
   /\ IsSome(pvScenario.validationStrategy.patterns)
   /\ IsSome(Val(pvScenario.validationStrategy.patterns).requiredFileNamePatterns))
    => LET ps == Val(Val(pvScenario.validationStrategy.patterns).requiredFileNamePatterns)
           found == SelectSeq(Val(pvResult).violations,
                      LAMBDA v : v.message = "Required file name pattern not found")
       IN  Len(found) = IF SomeFileNameMatches(pvFiles, ps) THEN 0 ELSE 1

\* the violations of the result that forbidden pattern p produced for a file
ForbiddenViolationsFor(result, p, file) ==
  SelectSeq(result.violations,
            LAMBDA v : /\ v.message = "Forbidden pattern found"
                       /\ v.sources = <<p.source>>
                       /\ v.file = file.path)

\* the numbers of the lines of the file in which the pattern has a match
MatchingLines(p, file) ==
  {n \in 1..Len(file.content) : file.content[n] \in p.matches}

\* C11: for every forbidden content pattern and every existing generated
\* file, validate produces as many violations for that pattern and file as
\* the file has lines the pattern matches, one per matching line, each with
\* the 1-based number of its line.
C11_ForbiddenPatternLineGranularity ==
  (/\ IsSome(pvResult)
   /\ Val(pvResult).error = ""
   /\ IsSome(pvScenario.validationStrategy.patterns)
   /\ IsSome(Val(pvScenario.validationStrategy.patterns).forbiddenPatterns))
    => LET ps == Val(Val(pvScenario.validationStrategy.patterns).forbiddenPatterns)
       IN  \A j \in 1..Len(ps), k \in 1..Len(pvFiles) :
             pvFiles[k].exists =>
               LET vs == ForbiddenViolationsFor(Val(pvResult), ps[j], pvFiles[k])
               IN  /\ Len(vs) = Cardinality(MatchingLines(ps[j], pvFiles[k]))
                   /\ {vs[m].line : m \in 1..Len(vs)}
                        = MatchingLines(ps[j], pvFiles[k])

\* some existing file of the list cannot be read
HasUnreadableFile(files) ==
  \E n \in 1..Len(files) : files[n].exists /\ ~files[n].readable

\* C12: when pattern validation is configured and reading an existing
\* generated file fails, the pattern validator's result is passed = FALSE,
\* score = 0, no violations and an error, and the scenario's score is the
\* mean over the active results with this result counted as a score of 0.
C12_UnreadableFileAbortsWithZero ==
  \A k \in Scns :
    (/\ promise[k].state = "resolved"
     /\ HasUnreadableFile(promise[k].files)
     /\ ~NoPatternValidationConfigured(scenarios[k]))
      => /\ Len(validationResults[k]) >= 1 =>
              /\ ~validationResults[k][1].passed
              /\ validationResults[k][1].score = 0
              /\ validationResults[k][1].violations = <<>>
              /\ validationResults[k][1].error # ""
         /\ (Returned(k) /\ Result(k).error = "") =>
              LET vr == Result(k).validationResults
                  act == {j \in 1..Len(vr) : vr[j].score >= 0}
              IN  /\ ~vr[1].passed
                  /\ vr[1].score = 0
                  /\ vr[1].error # ""
                  /\ 1 \in act
                  /\ Result(k).score * Cardinality(act)
                       = SumOver(act, [j \in act |-> vr[j].score])

\* C12 witness: a file with a forbidden line was read before the unreadable
\* one, ESLint scored 1.0, and the scenario's score is 0.5.
C12_Witness ==
  \E k \in Scns :
    /\ Returned(k)
    /\ Result(k).error = ""
    /\ Len(promise[k].files) = 2
    /\ HasUnreadableFile(promise[k].files)
    /\ Result(k).validationResults[1].error # ""
    /\ Result(k).validationResults[2].score = Skip
    /\ Result(k).validationResults[3].score = One
    /\ 2 * Result(k).score = One

\* a validator's result that reports a failure of the validator itself
ReportsFailure(result) ==
  ~result.passed /\ result.score = 0 /\ result.error # ""

\* the LLM judge runs and cannot complete: a file cannot be read, or the
\* API call or the parsing of its answer throws
LLMJudgeFails(k, env) ==
  /\ IsSome(scenarios[k].validationStrategy.llmJudge)
  /\ Val(scenarios[k].validationStrategy.llmJudge).enabled
  /\ env.token
  /\ HasUnreadableFile(generatedFiles[k]) \/ ~IsSome(env.api)

\* ESLint runs and cannot complete: its run on a file throws without a
\* report on stdout
ESLintFails(k, env) ==
  /\ IsSome(scenarios[k].validationStrategy.eslint)
  /\ Val(scenarios[k].validationStrategy.eslint).enabled
  /\ env.available
  /\ env.failure # "none"
  /\ \E n \in 1..Len(generatedFiles[k]) : Lintable(generatedFiles[k][n])

\* C13: a failure inside one validator does not end the scenario: the
\* validators run in the order pattern, LLM judge, ESLint, each adds its
\* result, a validator that failed reports passed = FALSE, score = 0 and an
\* error, and the scenario's result holds the three results and no
\* top-level error.
C13_ValidatorFailureIsContained ==
  [][\A k \in Scns :
       /\ RunPatternValidator(k) =>
            /\ Len(validationResults'[k]) = 1
            /\ validationResults'[k][1].validatorType = "pattern"
            /\ (HasUnreadableFile(promise[k].files)
                  /\ ~NoPatternValidationConfigured(scenarios[k]))
                 => ReportsFailure(validationResults'[k][1])
       /\ \A env \in LLMEnvs :
            RunLLMJudge(k, env) =>
              /\ Len(validationResults'[k]) = 2
              /\ validationResults'[k][2].validatorType = "llm-judge"
              /\ LLMJudgeFails(k, env) => ReportsFailure(validationResults'[k][2])
       /\ \A env \in ESLintEnvs :
            RunESLint(k, env) =>
              /\ Len(validationResults'[k]) = 3
              /\ validationResults'[k][3].validatorType = "eslint"
              /\ ESLintFails(k, env) => ReportsFailure(validationResults'[k][3])
       /\ (\E read \in ReadOutcomes : ScoreAndBaseline(k, read, "written")) =>
            /\ Result(k)'.error = ""
            /\ Result(k)'.validationResults = validationResults[k]
  ]_vars

\* every validator result the scenario has so far, current or returned
ValidatorResults(k) ==
  {validationResults[k][j] : j \in 1..Len(validationResults[k])}
    \cup (IF Returned(k)
            THEN {Result(k).validationResults[j] :
                    j \in 1..Len(Result(k).validationResults)}
            ELSE {})

\* C14: a validator that is not applicable (disabled, or its token or its
\* CLI is absent) returns the skip sentinel silently: a result with score
\* -1 has no error set.
C14_SkipCarriesNoError ==
  \A k \in Scns :
    \A r \in ValidatorResults(k) : r.score = Skip => r.error = ""

\* C15: every validator result has a score that is -1 or within [0, 1], and
\* every returned scenario result has a score within [0, 1].
C15_ScoresInRange ==
  \A k \in Scns :
    /\ \A r \in ValidatorResults(k) :
         r.score = Skip \/ (0 <= r.score /\ r.score <= One)
    /\ Returned(k) => (0 <= Result(k).score /\ Result(k).score <= One)

\* how often a severity occurs in a violation list
CountOf(violations, sev) ==
  Cardinality({n \in 1..Len(violations) : violations[n].severity = sev})

\* multiset inclusion of violation lists
ContainedIn(a, b) == \A sev \in Severities : CountOf(a, sev) <= CountOf(b, sev)

\* the summed weights in tenths: critical 1.0, major 0.7, minor 0.3
SummedWeight(violations) ==
  10 * CountOf(violations, "critical") + 7 * CountOf(violations, "major")
    + 3 * CountOf(violations, "minor")

\* C16: the pattern scorer is monotone (a list contained in another as a
\* multiset scores at least as high), two lists with the same summed
\* severity weights score the same, and the empty list scores exactly 1.0.
C16_ScorerMonotone ==
  IsSome(csScores) =>
    LET a == csViolations[1]
        b == csViolations[2]
        scoreA == Val(csScores)[1]
        scoreB == Val(csScores)[2]
    IN  /\ ContainedIn(a, b) => scoreA >= scoreB
        /\ SummedWeight(a) = SummedWeight(b) => scoreA = scoreB
        /\ a = <<>> => scoreA = One

\* C16 witness: a non-empty list and a longer one containing it were scored
\* and the longer one scored strictly lower.
C16_Witness ==
  /\ IsSome(csScores)
  /\ csViolations[1] # <<>>
  /\ ContainedIn(csViolations[1], csViolations[2])
  /\ Len(csViolations[2]) > Len(csViolations[1])
  /\ Val(csScores)[1] > Val(csScores)[2]

\* C17: in the report, passed counts the results with passed = TRUE, failed
\* the results that did not pass and carry no top-level error, skipped the
\* results that carry a top-level error, and total is the number of input
\* scenarios.
C17_SummaryCounters ==
  IsSome(report) =>
    LET rs == Val(report).results
        summary == Val(report).summary
    IN  /\ summary.passed = Cardinality({k \in 1..Len(rs) : rs[k].passed})
        /\ summary.failed =
             Cardinality({k \in 1..Len(rs) : ~rs[k].passed /\ rs[k].error = ""})
        /\ summary.skipped = Cardinality({k \in 1..Len(rs) : rs[k].error # ""})
        /\ summary.total = Len(scenarios)

\* C17 witness: a report of two scenarios, one failed on its violations and
\* one ended with a top-level error.
C17_Witness ==
  /\ IsSome(report)
  /\ Val(report).summary.total = 2
  /\ Val(report).summary.passed = 0
  /\ Val(report).summary.failed = 1
  /\ Val(report).summary.skipped = 1

\* the keys of the baseline store and loadBaseline by key
BaselineKeys == BaselineAdapters \X BaselineModels \X BaselineIds
CallKey(call) == <<call.adapter, call.model, call.scenarioId>>
LoadKey(store, key) == loadBaseline(store, key[1], key[2], key[3], "read").value

\* C18: the store is single-slot per key, most recent save wins: before any
\* save loadBaseline returns null for every key; a save makes loadBaseline
\* of its key return the saved score; and a save under another key changes
\* neither the score loadBaseline returns for a key nor its null.
C18_MostRecentSaveWins ==
  /\ \A key \in BaselineKeys : blCall = NoCall => LoadKey(baselines, key) = None
  /\ [][\A key \in BaselineKeys :
           blCall'.op = "saveBaseline" =>
             LET before == LoadKey(baselines, key)
                 after == LoadKey(baselines', key)
             IN  IF CallKey(blCall') = key
                   THEN IsSome(after) /\ Val(after).score = blCall'.score
                   ELSE /\ IsSome(after) = IsSome(before)
                        /\ IsSome(after) => Val(after).score = Val(before).score
     ]_vars

\* C19: records are isolated by key: saveBaseline or deleteBaseline for one
\* (adapter, model, scenarioId) leaves what loadBaseline returns for every
\* other triple unchanged.
C19_KeysIsolated ==
  [][\A key \in BaselineKeys :
       (/\ blCall'.op \in {"saveBaseline", "deleteBaseline"}
        /\ CallKey(blCall') # key)
         => LoadKey(baselines', key) = LoadKey(baselines, key)
  ]_vars

\* C20: compareWithBaseline returns null when no baseline exists for the
\* key; otherwise baselineScore is the stored score, delta is the current
\* score minus the baseline score, and isImprovement holds exactly when
\* delta > 0.
C20_CompareWithBaseline ==
  blCall.op = "compareWithBaseline" =>
    LET baseline == LoadKey(baselines, CallKey(blCall))
    IN  IF baseline = None THEN blRet = None
        ELSE /\ IsSome(blRet)
             /\ Val(blRet).baselineScore = Val(baseline).score
             /\ Val(blRet).delta = blCall.score - Val(baseline).score
             /\ Val(blRet).isImprovement <=> (blCall.score > Val(baseline).score)

\* C20 witness: a comparison with a baseline of the same score: delta 0 and
\* no improvement.
C20_Witness ==
  /\ blCall.op = "compareWithBaseline"
  /\ IsSome(blRet)
  /\ Val(blRet).delta = 0
  /\ ~Val(blRet).isImprovement

\* the file of the key of the last call, and what is known of its record
CallPath == getBaselinePath(blCall.adapter, blCall.model, blCall.scenarioId)
NoRecord == CallPath \notin DOMAIN baselines
CorruptRecord ==
  CallPath \in DOMAIN baselines /\ JSONParseThrows(baselines[CallPath])

\* C21: loadBaseline returns null and does not throw when no record exists
\* for the key and when the stored record cannot be parsed, and
\* compareWithBaseline then returns null and does not throw either.
C21_LoadBaselineNullOnMissingOrCorrupt ==
  (/\ blCall.op \in {"loadBaseline", "compareWithBaseline"}
   /\ NoRecord \/ CorruptRecord)
    => (blRet = None /\ ~blThrew)

\* C21 witness: loadBaseline was called for a key whose file holds a text
\* that was cut short, and the file could be read.
C21_Witness ==
  /\ blCall.op = "loadBaseline"
  /\ blCall.io = "read"
  /\ CorruptRecord
  /\ blRet = None

\* C22: a failing file operation makes the call throw: saveBaseline throws
\* when its write fails, and loadBaseline throws when the read of an
\* existing record fails.
C22_BaselineIOFailurePropagates ==
  /\ (blCall.op = "saveBaseline" /\ blCall.io # "written") => blThrew
  /\ (blCall.op = "loadBaseline" /\ blCall.io = "failed" /\ ~NoRecord)
       => blThrew

\* the number --threshold stands for, in tenths
ThresholdTenths(text) ==
  CASE text = "0.8" -> 8
    [] text = "0.5" -> 5
    [] text = "0.9" -> 9

\* C23: a scenario of the evaluate command that has no violations is
\* reported as passed exactly when its score is at least the number given
\* with --threshold (0.8 when the option is left out).
C23_ThresholdOptionSetsPassingScore ==
  \A k \in Scns :
    (/\ IsSome(cli)
     /\ Returned(k)
     /\ Result(k).error = ""
     /\ Result(k).violations = <<>>)
      => (Result(k).passed <=>
            10 * Result(k).score >= ThresholdTenths(Val(cli).threshold) * One)

\* the result carries the synthesized timeout violation
ClassifiedAsTimeout(result) ==
  \E n \in 1..Len(result.violations) :
    result.violations[n].message = "Code generation timed out"

\* C24: a failed generation is classified as a timeout, with the timeout
\* violation, exactly when the adapter's deadline elapsed; after a nonzero
\* exit code or a spawn failure the violation list is empty, whatever the
\* subprocess wrote to stderr.
C24_TimeoutIffDeadlineElapsed ==
  \A k \in Scns :
    (Returned(k) /\ promise[k].state = "rejected") =>
      /\ ClassifiedAsTimeout(Result(k)) <=> timer[k] = "fired"
      /\ timer[k] # "fired" => Result(k).violations = <<>>

\* the types of the events emitted for a scenario id, in order
EventTypes(id) ==
  LET es == SelectSeq(events, LAMBDA e : e.id = id)
  IN  [n \in 1..Len(es) |-> es[n].type]

IsPrefix(a, b) == Len(a) <= Len(b) /\ SubSeq(b, 1, Len(a)) = a

ValidatedRun ==
  <<"scenario:start", "scenario:generating", "scenario:validating",
    "scenario:complete">>
FailedRun == <<"scenario:start", "scenario:generating", "scenario:complete">>

\* C25: the events of a scenario come in the order scenario:start,
\* scenario:generating, scenario:validating only if generation succeeded,
\* then one scenario:complete; evaluation:start is the first event,
\* evaluation:complete the last one, after every scenario completed; and no
\* event of a scenario comes before scenario:complete of the scenarios
\* before it.
C25_LifecycleEventOrder ==
  /\ events[1] = Event("evaluation:start", "")
  /\ \A n \in 2..Len(events) : events[n].type # "evaluation:start"
  /\ \A n \in 1..Len(events) :
       events[n].type = "evaluation:complete" =>
         /\ n = Len(events)
         /\ \A k \in Scns :
              \E m \in 1..(n - 1) :
                events[m] = Event("scenario:complete", scenarios[k].id)
  /\ \A k \in Scns :
       LET types == EventTypes(scenarios[k].id)
       IN  /\ IsPrefix(types, ValidatedRun) \/ IsPrefix(types, FailedRun)
           /\ (Len(types) >= 3 /\ types[3] = "scenario:validating")
                <=> (phase[k] \in {"validating", "returned"}
                       /\ promise[k].state = "resolved")
           /\ \A n \in 1..Len(events) :
                events[n].id = scenarios[k].id =>
                  \A j \in 1..(k - 1) :
                    \E m \in 1..(n - 1) :
                      events[m] = Event("scenario:complete", scenarios[j].id)

\* C25 witness: a report of two scenarios, the first with a failed
\* generation and no scenario:validating, the second validated.
C25_Witness ==
  /\ IsSome(report)
  /\ Len(scenarios) = 2
  /\ EventTypes(scenarios[1].id) = FailedRun
  /\ EventTypes(scenarios[2].id) = ValidatedRun
  /\ events[Len(events)].type = "evaluation:complete"

Settled(pr) == pr.state \in {"resolved", "rejected"}

\* C26: the promise of generate settles once: a settled promise never
\* changes; when the timer fired the outcome is the timeout rejection, also
\* after the subprocess closed with any exit code; when the subprocess
\* closed or failed to start first the timer is cancelled and the outcome
\* is not the timeout rejection; with a null timeout no timer is armed and
\* the promise is settled only by close or error of the subprocess.
C26_GenerateSettlesOnce ==
  /\ [](\A k \in Scns :
          /\ timer[k] = "fired" =>
               /\ promise[k].state = "rejected"
               /\ promise[k].error.kind = "timed out"
               /\ promise[k].files = <<>>
          /\ (proc[k] \in {"closed", "spawnfailed"} /\ timer[k] # "fired") =>
               /\ timer[k] \in {"cleared", "none"}
               /\ Settled(promise[k])
               /\ promise[k].error.kind # "timed out"
          /\ (phase[k] # "pending" /\ timeoutArg[k].kind = "null") =>
               /\ timer[k] = "none"
               /\ (Settled(promise[k]) /\ proc[k] # "none")
                    => proc[k] \in {"closed", "spawnfailed"})
  /\ [][\A k \in Scns : Settled(promise[k]) => promise'[k] = promise[k]]_vars

\* C26 witness: the timer fired, the subprocess closed afterwards, and the
\* promise is still the timeout rejection.
C26_Witness ==
  \E k \in Scns :
    /\ timer[k] = "fired"
    /\ proc[k] = "closed"
    /\ promise[k].state = "rejected"
    /\ promise[k].error.kind = "timed out"

\* the file of scenario k's baseline, and whether the store holds a record
\* for it that an earlier save wrote in full
BaselinePathOf(k) ==
  getBaselinePath(options.adapter, DefaultModel, scenarios[k].id)
HasStoredRecord(store, k) ==
  BaselinePathOf(k) \in DOMAIN store /\ store[BaselinePathOf(k)].complete
StoredScore(store, k) == store[BaselinePathOf(k)].score.value

\* C27: with compareBaseline and saveBaseline both enabled, the comparison
\* of a scenario is taken against the record stored before the call: it is
\* absent when there was none, its baselineScore is the score stored before
\* the call, and after the call the stored record holds the current score.
C27_CompareBeforeSave ==
  [][\A k \in Scns :
       (/\ options.compareBaseline
        /\ options.saveBaseline
        /\ ScoreAndBaseline(k, "read", "written"))
         => LET result == Val(ret'[k])
            IN  /\ result.error = ""
                /\ IsSome(result.baselineComparison)
                     <=> HasStoredRecord(baselines, k)
                /\ HasStoredRecord(baselines, k) =>
                     /\ Val(result.baselineComparison).baselineScore
                          = StoredScore(baselines, k)
                     /\ Val(result.baselineComparison).delta
                          = result.score - StoredScore(baselines, k)
                /\ HasStoredRecord(baselines', k)
                /\ StoredScore(baselines', k) = result.score
  ]_vars

\* C27 witness: a scenario scored 1.0 was compared with the 0.5 stored by
\* an earlier run, and the store now holds 1.0.
C27_Witness ==
  \E k \in Scns :
    /\ Returned(k)
    /\ options.compareBaseline /\ options.saveBaseline
    /\ Result(k).score = One
    /\ IsSome(Result(k).baselineComparison)
    /\ Val(Result(k).baselineComparison).baselineScore = 3000
    /\ HasStoredRecord(baselines, k)
    /\ StoredScore(baselines, k) = One

\* C28: a scenario whose generation fails leaves the baseline store as it
\* was and its result carries no baselineComparison, whatever saveBaseline
\* and compareBaseline are: the store changes in no step of a scenario
\* whose generation has not succeeded.
C28_FailedGenerationLeavesBaselines ==
  /\ [](\A k \in Scns :
          (Returned(k) /\ promise[k].state = "rejected") =>
            Result(k).baselineComparison = None)
  /\ [][\A k \in Scns :
          promise'[k].state # "resolved" => baselines' = baselines]_vars

\* C28 witness: with saveBaseline and compareBaseline enabled and a baseline
\* of 0.5 stored, the generation timed out and the scenario returned; the
\* stored score is still 0.5.
C28_Witness ==
  \E k \in Scns :
    /\ options.saveBaseline /\ options.compareBaseline
    /\ Returned(k)
    /\ promise[k].state = "rejected"
    /\ timer[k] = "fired"
    /\ HasStoredRecord(baselines, k)
    /\ StoredScore(baselines, k) = 3000

\* C29: whenever a returned result has passed = true, every validation
\* result in it that was not skipped (score >= 0) has passed = true.
C29_PassedImpliesValidatorsPassed ==
  \A k \in Scns :
    (Returned(k) /\ Result(k).passed) =>
      \A j \in 1..Len(Result(k).validationResults) :
        Result(k).validationResults[j].score >= 0 =>
          Result(k).validationResults[j].passed

\* C30: in every report the three counters partition the results:
\* summary.passed + summary.failed + summary.skipped = summary.total = the
\* number of results, and a result that carries an error has passed = false.
C30_CountersPartitionResults ==
  IsSome(report) =>
    LET rs == Val(report).results
        summary == Val(report).summary
    IN  /\ summary.passed + summary.failed + summary.skipped = summary.total
        /\ summary.total = Len(rs)
        /\ \A k \in 1..Len(rs) : rs[k].error # "" => ~rs[k].passed

\* C30 witness: a report of two scenarios, one passed and one ended by an
\* error.
C30_Witness ==
  /\ IsSome(report)
  /\ Len(Val(report).results) = 2
  /\ Val(report).summary.passed = 1
  /\ Val(report).summary.failed = 0
  /\ Val(report).summary.skipped = 1
  /\ \E k \in 1..2 : Val(report).results[k].error # ""

====
